---- MODULE Spec2Model ----
(***************************************************************************)
(* The 9:20 hedged OTM option selling strategy of simulation.py            *)
(* (run_simulation) and the live paper trade of main.py                    *)
(* (run_live_paper_trade), as one sequential state machine each.           *)
(*                                                                         *)
(* Money amounts (premiums, spot, P/L) are integers counting 1/10000 of a  *)
(* rupee, so 100.0 is 1000000 and 0.1 is 1000.  Strikes and distances are  *)
(* whole rupees.  The clock is the time of day in minutes since midnight.  *)
(* A Python dict is a function whose DOMAIN is the set of its keys.        *)
(***************************************************************************)
EXTENDS Integers, Sequences, FiniteSets, TLC

VARIABLES
    prog,             \* which script runs: "simulation" or "main"
    config,           \* the values of config.py read by the run
    dhan,             \* the broker: the answers of quote_data and of the download
    clock,            \* datetime.now().time(), minutes since midnight
    pc,               \* position of the run in its function body
    instrument_df,    \* result of get_instrument_file(): None or the rows
    spot_price,       \* run_simulation / run_live_paper_trade local
    expiry_date,      \* run_simulation local
    trade_legs,       \* run_simulation local: leg name -> leg dict
    simulation_data,  \* run_simulation local: the master dictionary
    quotes,           \* answers of the get_live_price calls of the latest step
    fetches,          \* get_live_price calls made so far, per leg
    live,             \* run_live_paper_trade locals: strikes, ids, prices, trade_log
    exported          \* rows appended to the spreadsheet log by this run

vars == <<prog, config, dhan, clock, pc, instrument_df, spot_price, expiry_date,
          trade_legs, simulation_data, quotes, fetches, live, exported>>

-----------------------------------------------------------------------------
(* Program constants *)

LOT_SIZE == 15
SL_PERCENTAGE == 25
SHORT_OTM_DISTANCE == 300
HEDGE_DISTANCE == 500
MANUAL_SPOT_PRICE == 48000 * 10000
\* entry_time = time(9, 20) and exit_time = time(15, 0)
EntryTime == 9 * 60 + 20
ExitTime == 15 * 60

(* Bounds of the model *)

\* minutes after the entry time at which the clock can be observed
MaxTicks == 1

\* the times of day at which the clock can be observed
ClockGrid ==
    ((EntryTime - 1)..(EntryTime + MaxTicks)) \cup ((ExitTime - 1)..(ExitTime + 1))

\* premiums the feed can quote for a short leg: 100.0, 124.9, 125.0
ShortPremiums == {1000000, 1249000, 1250000}
\* the same in the runs checked for completion: 100.0, 125.0
FairShortPremiums == {1000000, 1250000}
\* the same in the runs with a premium of four decimals: 100.0004, 125.0
FineShortPremiums == {1000004, 1250000}
\* premiums the feed can quote for a hedge leg: 70.0004
HedgePremiums == {700004}
\* index values the feed can quote: 48000.0
SpotQuotes == {480000000}
\* index values and distances of the strike-selection runs
WideSpotQuotes == {479499500, 480000000, 480500000, 481500000, 481234500}
Distances == {0, 50, 300}
HedgeDistances == {0, 500}
\* a row of the instrument snapshot: the columns find_weekly_expiry reads, the
\* expiry date in days relative to today
Row(name, instrument, exchange, expiry) ==
    [SM_SYMBOL_NAME |-> name, SEM_EXCH_INSTRUMENT_TYPE |-> instrument,
     SEM_EXM_EXCH_ID |-> exchange, SEM_EXPIRY_DATE |-> expiry]
BankNiftyOption(expiry) == Row("BANKNIFTY", "OPTIDX", "NSE_FNO", expiry)
\* the snapshots of the trading runs: empty, expired options only, and
\* options expired yesterday, expiring in 3 and in 10 days
Catalogs ==
    { {},
      {BankNiftyOption(0 - 1)},
      {BankNiftyOption(0 - 1), BankNiftyOption(3), BankNiftyOption(10)} }
\* the snapshots of the expiry-selection runs: every set of these rows
WideRows ==
    {BankNiftyOption(0 - 1), BankNiftyOption(0), BankNiftyOption(3),
     BankNiftyOption(10),
     Row("NIFTY", "OPTIDX", "NSE_FNO", 1),
     Row("BANKNIFTY", "FUTIDX", "NSE_FNO", 2),
     Row("BANKNIFTY", "OPTIDX", "BSE_FNO", 1)}
WideCatalogs == SUBSET WideRows

LegNames == <<"Short_CE", "Hedge_CE", "Short_PE", "Hedge_PE">>
LegSet == {LegNames[i] : i \in 1..4}
ShortLegs == {"Short_CE", "Short_PE"}

-----------------------------------------------------------------------------
(* Pure helpers *)

\* Python round(): n/d (d > 0) to the nearest integer, ties to the even one
RoundHalfEven(n, d) ==
    LET q == n \div d
        r == n % d
    IN  IF 2 * r < d THEN q
        ELSE IF 2 * r > d THEN q + 1
        ELSE IF q % 2 = 0 THEN q ELSE q + 1

\* round(x, 1) and round(x, 2) of the amount num/den
Round1(num, den) == RoundHalfEven(num, den * 1000) * 1000
Round2(num, den) == RoundHalfEven(num, den * 100) * 100

\* a strike base that truncates instead of rounding
StrikeBaseTruncated(spot) == (spot \div 1000000) * 100

\* simulation.py: strike_base = int(round(spot_price / 100) * 100)
StrikeBase(spot) == RoundHalfEven(spot, 1000000) * 100

\* simulation.py: the four strikes
SimStrikes(spot, d, h) ==
    LET base == StrikeBase(spot)
        short_ce == base + d
        short_pe == base - d
    IN  [Short_CE |-> short_ce, Hedge_CE |-> short_ce + h,
         Short_PE |-> short_pe, Hedge_PE |-> short_pe - h]

\* main.py: the four strikes
LiveStrikes(spot, d, h) ==
    LET short_ce == RoundHalfEven(spot + d * 10000, 1000000) * 100
        short_pe == RoundHalfEven(spot - d * 10000, 1000000) * 100
    IN  [Short_CE |-> short_ce, Hedge_CE |-> short_ce + h,
         Short_PE |-> short_pe, Hedge_PE |-> short_pe - h]

OptionType(name) == IF name \in {"Short_CE", "Hedge_CE"} THEN "CE" ELSE "PE"
LegAction(name) == IF name \in ShortLegs THEN "SELL" ELSE "BUY"

\* construct_trading_symbol: the formatted string, as the tuple of its parts
construct_trading_symbol(underlying, expiry, strike, option_type) ==
    <<underlying, expiry, strike, option_type>>

\* the initial trade_legs dictionary
NewLegs(strikes) ==
    [n \in LegSet |->
        [type |-> OptionType(n), strike |-> strikes[n], action |-> LegAction(n)]]

\* a stop-loss price that is not rounded to one decimal
StopLossPriceUnrounded(entry_price) == (entry_price * (100 + SL_PERCENTAGE)) \div 100

\* sl_price = entry_price * (1 + SL_PERCENTAGE / 100), rounded to one decimal
StopLossPrice(entry_price) == Round1(entry_price * (100 + SL_PERCENTAGE), 100)

\* get_live_price: the answers a call can give.  Without an id, on an
\* exception or on a status other than success it returns 0.0 (ok is FALSE);
\* otherwise the ltp of the response
get_live_price(d, sec_id) ==
    IF sec_id = "None"
    THEN {[ok |-> FALSE, ltp |-> 0]}
    ELSE {[ok |-> FALSE, ltp |-> 0]} \cup {[ok |-> TRUE, ltp |-> p] : p \in d.ltp[sec_id]}

\* every answer get_live_price can give for some leg
Answers(d) == UNION {get_live_price(d, n) : n \in LegSet}

\* a stop-loss test that is skipped for a stop-loss price of 0.0
StopLossHitWhenSet(current_price, leg) == leg.sl > 0 /\ current_price >= leg.sl

\* a stop-loss test against the entry price instead of the stop-loss price
StopLossHitAtEntryPrice(current_price, leg) == current_price >= leg.entry_price

\* a stop-loss test that needs the price strictly above the stop-loss
StopLossHitStrict(current_price, leg) == current_price > leg.sl

\* the stop-loss test of the monitoring loop
StopLossHit(current_price, leg) == current_price >= leg.sl

\* a poll that quotes both short legs whatever their status
MonitoredAnyStatus(legs) == ShortLegs

\* the legs a monitoring poll quotes
Monitored(legs) == {n \in ShortLegs : legs[n].status = "OPEN"}

\* a break test that is satisfied by one closed short leg
EitherShortClosed(legs) ==
    legs["Short_CE"].status # "OPEN" \/ legs["Short_PE"].status # "OPEN"

\* the break test of the monitoring loop
BothShortsClosed(legs) ==
    legs["Short_CE"].status # "OPEN" /\ legs["Short_PE"].status # "OPEN"

\* a pnl that treats every leg as a SELL leg
RawPnlSellOnly(leg) == (leg.entry_price - leg.exit_price) * LOT_SIZE

\* the unrounded pnl of a leg
RawPnl(leg) ==
    IF leg.action = "SELL"
    THEN (leg.entry_price - leg.exit_price) * LOT_SIZE
    ELSE (leg.exit_price - leg.entry_price) * LOT_SIZE

\* leg_data['pnl'] = round(pnl, 2)
RecordedPnl(leg) == Round2(RawPnl(leg), 1)

\* simulation_data['Total_PL'] = round(total_pnl, 2)
TotalPL(legs) ==
    Round2(RawPnl(legs["Short_CE"]) + RawPnl(legs["Hedge_CE"])
           + RawPnl(legs["Short_PE"]) + RawPnl(legs["Hedge_PE"]), 1)

\* a net credit that leaves out the premiums paid for the hedges
NetCreditShortsOnly(legs) ==
    legs["Short_CE"].entry_price + legs["Short_PE"].entry_price

\* simulation_data['Net_Credit']
NetCredit(legs) ==
    (legs["Short_CE"].entry_price + legs["Short_PE"].entry_price)
    - (legs["Hedge_CE"].entry_price + legs["Hedge_PE"].entry_price)

\* the dict d with the keys of upd set
Update(d, upd) == upd @@ d

\* the flat row export_simulation_results builds
FlatData(data, legs) ==
    [Spot_Price |-> data.Spot_Price_Entry,
     Strikes |-> [n \in LegSet |-> legs[n].strike],
     Premiums |-> [n \in LegSet |-> legs[n].entry_price],
     SL |-> [n \in ShortLegs |->
                IF "sl" \in DOMAIN legs[n] THEN legs[n].sl ELSE 0],
     Exit_Prices |-> [n \in LegSet |-> legs[n].exit_price],
     PL |-> [n \in ShortLegs |-> legs[n].pnl],
     Net_Credit |-> data.Net_Credit,
     Total_PL |-> data.Total_PL]

\* get_instrument_file: the results a call can give: the rows of the snapshot
\* read or downloaded, or None when the download fails
get_instrument_file(d) ==
    {[read |-> "None", rows |-> {}]}
    \cup {[read |-> "DataFrame", rows |-> rows] : rows \in d.scrip_master}

\* find_weekly_expiry: the BANKNIFTY index option rows of the snapshot
bn_options(df) ==
    {r \in df.rows : /\ r.SM_SYMBOL_NAME = "BANKNIFTY"
                     /\ r.SEM_EXCH_INSTRUMENT_TYPE = "OPTIDX"
                     /\ r.SEM_EXM_EXCH_ID = "NSE_FNO"}

\* expiries that leave out the one of today
FutureExpiriesAfterToday(df) ==
    {r.SEM_EXPIRY_DATE : r \in {o \in bn_options(df) : o.SEM_EXPIRY_DATE > 0}}

\* find_weekly_expiry: the expiries on or after today (day 0)
FutureExpiries(df) ==
    {r.SEM_EXPIRY_DATE : r \in {o \in bn_options(df) : o.SEM_EXPIRY_DATE >= 0}}
NearestExpiry(df) ==
    CHOOSE e \in FutureExpiries(df) : \A f \in FutureExpiries(df) : e <= f

-----------------------------------------------------------------------------
(* Initial states *)

NoLive == [strikes |-> <<>>, symbols |-> <<>>, ids |-> <<>>, prices |-> <<>>,
           trade_log |-> <<>>]

InitRun ==
    /\ prog \in {"simulation", "main"}
    /\ clock \in ClockGrid
    /\ pc = "start"
    /\ instrument_df = [read |-> "unread", rows |-> {}]
    /\ spot_price = 0
    /\ expiry_date = "unset"
    /\ trade_legs = <<>>
    /\ simulation_data = <<>>
    /\ quotes = <<>>
    /\ fetches = [n \in LegSet |-> 0]
    /\ live = NoLive
    /\ exported = <<>>

\* the broker: a feed that quotes the given premiums and index values, and
\* a scrip master download that gives one of the given snapshots
Feed(shorts, hedges, spots, catalogs) ==
    [ltp |-> [n \in LegSet |-> IF n \in ShortLegs THEN shorts ELSE hedges],
     spot |-> spots,
     scrip_master |-> catalogs]

\* config.py as committed, with the development mode on or off
Init ==
    /\ InitRun
    /\ config \in [DEV_MODE : BOOLEAN,
                   SHORT_OTM_DISTANCE : {SHORT_OTM_DISTANCE},
                   HEDGE_DISTANCE : {HEDGE_DISTANCE},
                   MANUAL_SPOT_PRICE : {MANUAL_SPOT_PRICE}]
    /\ dhan = Feed(ShortPremiums, HedgePremiums, SpotQuotes, Catalogs)

\* the runs checked for completion: config.py as committed and a feed that
\* quotes 100.0 or 125.0 for a short leg
InitFair ==
    /\ InitRun
    /\ config \in [DEV_MODE : BOOLEAN,
                   SHORT_OTM_DISTANCE : {SHORT_OTM_DISTANCE},
                   HEDGE_DISTANCE : {HEDGE_DISTANCE},
                   MANUAL_SPOT_PRICE : {MANUAL_SPOT_PRICE}]
    /\ dhan = Feed(FairShortPremiums, HedgePremiums, SpotQuotes, Catalogs)

\* strike selection: any configured distances and any index value, with a
\* feed that answers for the index only
InitStrikes ==
    /\ InitRun
    /\ config \in [DEV_MODE : BOOLEAN,
                   SHORT_OTM_DISTANCE : Distances,
                   HEDGE_DISTANCE : HedgeDistances,
                   MANUAL_SPOT_PRICE : WideSpotQuotes]
    /\ dhan = Feed({}, {}, WideSpotQuotes, Catalogs)

\* config.py as committed and a feed that quotes 100.0004 or 125.0 for a
\* short leg and fails for a hedge leg
InitFine ==
    /\ InitRun
    /\ config \in [DEV_MODE : BOOLEAN,
                   SHORT_OTM_DISTANCE : {SHORT_OTM_DISTANCE},
                   HEDGE_DISTANCE : {HEDGE_DISTANCE},
                   MANUAL_SPOT_PRICE : {MANUAL_SPOT_PRICE}]
    /\ dhan = Feed(FineShortPremiums, {}, SpotQuotes, Catalogs)

\* expiry selection: config.py as committed and any snapshot, with a feed
\* that answers for the index only
InitExpiry ==
    /\ InitRun
    /\ config \in [DEV_MODE : BOOLEAN,
                   SHORT_OTM_DISTANCE : {SHORT_OTM_DISTANCE},
                   HEDGE_DISTANCE : {HEDGE_DISTANCE},
                   MANUAL_SPOT_PRICE : {MANUAL_SPOT_PRICE}]
    /\ dhan = Feed({}, {}, SpotQuotes, WideCatalogs)

-----------------------------------------------------------------------------
(* run_simulation *)

Sim(at) == prog = "simulation" /\ pc = at

\* while datetime.now().time() < entry_time: sleep(5)
WaitEntry ==
    /\ Sim("start")
    /\ ~config.DEV_MODE
    /\ clock < EntryTime
    /\ \E t \in ClockGrid : t > clock /\ clock' = t
    /\ UNCHANGED <<prog, config, dhan, pc, instrument_df, spot_price, expiry_date,
                   trade_legs, simulation_data, quotes, fetches, live, exported>>

\* the entry time is reached, or the wait is skipped in dev mode
EntryReached ==
    /\ Sim("start")
    /\ config.DEV_MODE \/ clock >= EntryTime
    /\ pc' = "load"
    /\ UNCHANGED <<prog, config, dhan, clock, instrument_df, spot_price, expiry_date,
                   trade_legs, simulation_data, quotes, fetches, live, exported>>

\* a step that goes on to the spot quote without testing for None
GetInstrumentFileUnchecked ==
    /\ Sim("load")
    /\ \E df \in get_instrument_file(dhan) :
         /\ instrument_df' = df
         /\ pc' = "spot"
    /\ UNCHANGED <<prog, config, dhan, clock, spot_price, expiry_date,
                   trade_legs, simulation_data, quotes, fetches, live, exported>>

\* instrument_df = get_instrument_file(); if instrument_df is None: return
GetInstrumentFile ==
    /\ Sim("load")
    /\ \E df \in get_instrument_file(dhan) :
         /\ instrument_df' = df
         /\ pc' = IF df.read = "None" THEN "aborted" ELSE "spot"
    /\ UNCHANGED <<prog, config, dhan, clock, spot_price, expiry_date,
                   trade_legs, simulation_data, quotes, fetches, live, exported>>

\* get_bank_nifty_spot_price: the ltp of the index, or 0.0 when the index row
\* is missing, the request fails or an exception is caught
get_bank_nifty_spot_price(d) == {0} \cup d.spot

\* spot_price = get_bank_nifty_spot_price(...); if spot_price == 0.0: return
GetSpotPrice ==
    /\ Sim("spot")
    /\ \E s \in get_bank_nifty_spot_price(dhan) :
         /\ spot_price' = s
         /\ pc' = IF s = 0 THEN "aborted" ELSE "expiry"
    /\ UNCHANGED <<prog, config, dhan, clock, instrument_df, expiry_date,
                   trade_legs, simulation_data, quotes, fetches, live, exported>>

\* expiry_date = find_weekly_expiry(instrument_df); with no expiry on or after
\* today the minimum is not a date and strftime raises
FindWeeklyExpiry ==
    /\ Sim("expiry")
    /\ IF FutureExpiries(instrument_df) = {}
       THEN pc' = "raised" /\ UNCHANGED expiry_date
       ELSE pc' = "strikes" /\ expiry_date' = NearestExpiry(instrument_df)
    /\ UNCHANGED <<prog, config, dhan, clock, instrument_df, spot_price,
                   trade_legs, simulation_data, quotes, fetches, live, exported>>

\* the strikes and the trade_legs dictionary
CalculateStrikes ==
    /\ Sim("strikes")
    /\ trade_legs' = NewLegs(SimStrikes(spot_price, config.SHORT_OTM_DISTANCE,
                                        config.HEDGE_DISTANCE))
    /\ pc' = "entry"
    /\ UNCHANGED <<prog, config, dhan, clock, instrument_df, spot_price, expiry_date,
                   simulation_data, quotes, fetches, live, exported>>

\* the legs the entry loop has not reached yet, and the next of them
NotEntered == {i \in 1..4 : "status" \notin DOMAIN trade_legs[LegNames[i]]}
NextToEnter == LegNames[CHOOSE i \in NotEntered : \A j \in NotEntered : i <= j]

\* an entry that leaves the leg as it is when its quote failed, to be tried again
EnteredLegUnlessFailed(name, leg, sec_id, quote) ==
    IF ~quote.ok
    THEN leg
    ELSE LET filled == Update(leg,
                 [symbol |-> construct_trading_symbol("BANKNIFTY", expiry_date,
                                                      leg.strike, leg.type),
                  sec_id |-> sec_id, entry_price |-> quote.ltp, status |-> "OPEN",
                  exit_price |-> 0, pnl |-> 0])
         IN  IF name \in ShortLegs
             THEN Update(filled, [sl |-> StopLossPrice(quote.ltp)])
             ELSE filled

\* an entry that gives a stop-loss price to every leg, the hedges included
EnteredLegWithStop(name, leg, sec_id, quote) ==
    Update(leg,
        [symbol |-> construct_trading_symbol("BANKNIFTY", expiry_date,
                                             leg.strike, leg.type),
         sec_id |-> sec_id, entry_price |-> quote.ltp, status |-> "OPEN",
         exit_price |-> 0, pnl |-> 0, sl |-> StopLossPrice(quote.ltp)])

\* the body of the entry loop for one leg, given the result of the catalog
\* lookup and the answer of get_live_price
EnteredLeg(name, leg, sec_id, quote) ==
    LET filled == Update(leg,
            [symbol |-> construct_trading_symbol("BANKNIFTY", expiry_date,
                                                 leg.strike, leg.type),
             sec_id |-> sec_id, entry_price |-> quote.ltp, status |-> "OPEN",
             exit_price |-> 0, pnl |-> 0])
    IN  IF name \in ShortLegs
        THEN Update(filled, [sl |-> StopLossPrice(quote.ltp)])
        ELSE filled

\* get_security_id_from_symbol: the id of the first matching row, or None
get_security_id_from_symbol(name) == {"None", name}

\* one iteration of the loop "Find Security IDs and Entry Prices"
EnterLeg ==
    /\ Sim("entry")
    /\ NotEntered # {}
    /\ LET name == NextToEnter IN
       \E sec_id \in get_security_id_from_symbol(name) :
       \E quote \in get_live_price(dhan, sec_id) :
         /\ trade_legs' = [trade_legs EXCEPT
                             ![name] = EnteredLeg(name, @, sec_id, quote)]
         /\ quotes' = (name :> quote)
         /\ fetches' = [fetches EXCEPT ![name] = @ + 1]
    /\ UNCHANGED <<prog, config, dhan, clock, pc, instrument_df, spot_price,
                   expiry_date, simulation_data, live, exported>>

\* simulation_data = {...}
StoreSimulationData ==
    /\ Sim("entry")
    /\ NotEntered = {}
    /\ simulation_data' = [Spot_Price_Entry |-> spot_price,
                           Net_Credit |-> NetCredit(trade_legs),
                           Total_PL |-> 0]
    /\ pc' = "monitor"
    /\ UNCHANGED <<prog, config, dhan, clock, instrument_df, spot_price, expiry_date,
                   trade_legs, quotes, fetches, live, exported>>

\* a leg after the poll that fetched current_price for it at time now
PolledLeg(leg, current_price, now) ==
    IF StopLossHit(current_price, leg)
    THEN Update(leg, [status |-> "CLOSED_SL", exit_price |-> current_price,
                      exit_time |-> now])
    ELSE leg

\* a loop condition that does not look at the development mode
LoopConditionInDevMode == clock < ExitTime

\* whether the monitoring loop runs another iteration
LoopCondition == ~config.DEV_MODE /\ clock < ExitTime

\* one iteration of the monitoring loop: quote the open short legs, close
\* those at or above their stop-loss, then break or sleep(60)
MonitorPoll ==
    /\ Sim("monitor")
    /\ LoopCondition
    /\ LET quoted == Monitored(trade_legs) IN
       \E answer \in [quoted -> Answers(dhan)] :
         /\ \A n \in quoted : answer[n] \in get_live_price(dhan, trade_legs[n].sec_id)
         /\ LET after == [n \in LegSet |->
                            IF n \in quoted
                            THEN PolledLeg(trade_legs[n], answer[n].ltp, clock)
                            ELSE trade_legs[n]]
            IN  /\ trade_legs' = after
                /\ quotes' = answer
                /\ fetches' = [n \in LegSet |->
                                 IF n \in quoted THEN fetches[n] + 1 ELSE fetches[n]]
                /\ IF BothShortsClosed(after)
                   THEN pc' = "square_off" /\ UNCHANGED clock
                   ELSE /\ UNCHANGED pc
                        /\ \E t \in ClockGrid : t > clock /\ clock' = t
    /\ UNCHANGED <<prog, config, dhan, instrument_df, spot_price, expiry_date,
                   simulation_data, live, exported>>

\* the loop condition fails, or the loop is skipped in dev mode
MonitorEnd ==
    /\ Sim("monitor")
    /\ ~LoopCondition
    /\ pc' = "square_off"
    /\ UNCHANGED <<prog, config, dhan, clock, instrument_df, spot_price, expiry_date,
                   trade_legs, simulation_data, quotes, fetches, live, exported>>

\* a square-off that also visits the legs closed by their stop-loss
StillOpenOrStopped == {i \in 1..4 : trade_legs[LegNames[i]].status # "CLOSED_EOD"}

\* the legs the square-off loop still has to visit, and the next of them
StillOpen == {i \in 1..4 : trade_legs[LegNames[i]].status = "OPEN"}
NextToSquareOff == LegNames[CHOOSE i \in StillOpen : \A j \in StillOpen : i <= j]

\* a square-off that applies the stop-loss test to the exit quote
SquaredOffLegWithStop(leg, exit_price, now) ==
    Update(leg, [status |-> IF "sl" \in DOMAIN leg /\ exit_price >= leg.sl
                            THEN "CLOSED_SL" ELSE "CLOSED_EOD",
                 exit_price |-> exit_price, exit_time |-> now])

\* a leg closed by the square-off at price exit_price
SquaredOffLeg(leg, exit_price, now) ==
    Update(leg, [status |-> "CLOSED_EOD", exit_price |-> exit_price,
                 exit_time |-> now])

\* one iteration of the loop "Square Off at 3:00 PM" that finds a leg OPEN
SquareOffLeg ==
    /\ Sim("square_off")
    /\ StillOpen # {}
    /\ LET name == NextToSquareOff IN
       \E quote \in get_live_price(dhan, trade_legs[name].sec_id) :
         /\ trade_legs' = [trade_legs EXCEPT
                             ![name] = SquaredOffLeg(@, quote.ltp, clock)]
         /\ quotes' = (name :> quote)
         /\ fetches' = [fetches EXCEPT ![name] = @ + 1]
    /\ UNCHANGED <<prog, config, dhan, clock, pc, instrument_df, spot_price,
                   expiry_date, simulation_data, live, exported>>

\* a P/L calculation that does not wait for the square-off loop to finish
CalculatePnlEarly ==
    /\ Sim("square_off")
    /\ trade_legs' = [n \in LegSet |->
                        Update(trade_legs[n], [pnl |-> RecordedPnl(trade_legs[n])])]
    /\ simulation_data' = Update(simulation_data, [Total_PL |-> TotalPL(trade_legs)])
    /\ pc' = "export"
    /\ UNCHANGED <<prog, config, dhan, clock, instrument_df, spot_price, expiry_date,
                   quotes, fetches, live, exported>>

\* the loop "Final P/L Calculation" and simulation_data['Total_PL']
CalculatePnl ==
    /\ Sim("square_off")
    /\ StillOpen = {}
    /\ trade_legs' = [n \in LegSet |->
                        Update(trade_legs[n], [pnl |-> RecordedPnl(trade_legs[n])])]
    /\ simulation_data' = Update(simulation_data, [Total_PL |-> TotalPL(trade_legs)])
    /\ pc' = "export"
    /\ UNCHANGED <<prog, config, dhan, clock, instrument_df, spot_price, expiry_date,
                   quotes, fetches, live, exported>>

\* an export that resets the computed Total_PL when the append fails
ExportSimulationResultsRollingBack ==
    /\ Sim("export")
    /\ \/ /\ exported' = Append(exported, FlatData(simulation_data, trade_legs))
          /\ UNCHANGED simulation_data
       \/ /\ UNCHANGED exported
          /\ simulation_data' = Update(simulation_data, [Total_PL |-> 0])
    /\ pc' = "done"
    /\ UNCHANGED <<prog, config, dhan, clock, instrument_df, spot_price, expiry_date,
                   trade_legs, quotes, fetches, live>>

\* export_simulation_results(simulation_data): the row is appended, or the
\* append fails and the error is printed; run_simulation then returns
ExportSimulationResults ==
    /\ Sim("export")
    /\ \/ exported' = Append(exported, FlatData(simulation_data, trade_legs))
       \/ UNCHANGED exported
    /\ pc' = "done"
    /\ UNCHANGED <<prog, config, dhan, clock, instrument_df, spot_price, expiry_date,
                   trade_legs, simulation_data, quotes, fetches, live>>

-----------------------------------------------------------------------------
(* run_live_paper_trade of main.py; its keys "Short CE", ... are written    *)
(* with the leg names of simulation.py                                      *)

Live(at) == prog = "main" /\ pc = at

\* instrument_df = get_instrument_file(); if instrument_df is None: return
LiveGetInstrumentFile ==
    /\ Live("start")
    /\ \E df \in get_instrument_file(dhan) :
         /\ instrument_df' = df
         /\ pc' = IF df.read = "None" THEN "aborted" ELSE "manual"
    /\ UNCHANGED <<prog, config, dhan, clock, spot_price, expiry_date,
                   trade_legs, simulation_data, quotes, fetches, live, exported>>

\* the manual inputs, the strikes and the trading symbols
LiveCalculateStrikes ==
    /\ Live("manual")
    /\ spot_price' = config.MANUAL_SPOT_PRICE
    /\ IF config.MANUAL_SPOT_PRICE = 0
       THEN pc' = "aborted" /\ UNCHANGED live
       ELSE LET strikes == LiveStrikes(config.MANUAL_SPOT_PRICE,
                                       config.SHORT_OTM_DISTANCE,
                                       config.HEDGE_DISTANCE)
            IN  /\ live' = [live EXCEPT
                     !.strikes = strikes,
                     !.symbols = [n \in LegSet |->
                         construct_trading_symbol("BANKNIFTY", "MANUAL_EXPIRY_DATE",
                                                  strikes[n], OptionType(n))]]
                /\ pc' = "ids"
    /\ UNCHANGED <<prog, config, dhan, clock, instrument_df, expiry_date,
                   trade_legs, simulation_data, quotes, fetches, exported>>

\* all(ids.values())
AllIdsFound(ids) == \A n \in LegSet : ids[n] # "None"

\* ids = {...}; if not all(ids.values()): return
LiveFindSecurityIds ==
    /\ Live("ids")
    /\ \E ids \in [LegSet -> {"None"} \cup LegSet] :
         /\ \A n \in LegSet : ids[n] \in get_security_id_from_symbol(n)
         /\ live' = [live EXCEPT !.ids = ids]
         /\ pc' = IF AllIdsFound(ids) THEN "prices" ELSE "aborted"
    /\ UNCHANGED <<prog, config, dhan, clock, instrument_df, spot_price, expiry_date,
                   trade_legs, simulation_data, quotes, fetches, exported>>

\* trade_log['Net Credit']
LiveNetCredit(prices) ==
    (prices["Short_CE"] + prices["Short_PE"]) - (prices["Hedge_CE"] + prices["Hedge_PE"])

\* prices = {...}; trade_log = {...}
LiveFetchPrices ==
    /\ Live("prices")
    /\ \E answer \in [LegSet -> Answers(dhan)] :
         /\ \A n \in LegSet : answer[n] \in get_live_price(dhan, live.ids[n])
         /\ LET prices == [n \in LegSet |-> answer[n].ltp] IN
            live' = [live EXCEPT
                       !.prices = prices,
                       !.trade_log = [Spot_Price |-> spot_price,
                                      Strikes |-> live.strikes,
                                      Premiums |-> prices,
                                      Net_Credit |-> LiveNetCredit(prices)]]
         /\ quotes' = answer
         /\ fetches' = [n \in LegSet |-> fetches[n] + 1]
    /\ pc' = "export"
    /\ UNCHANGED <<prog, config, dhan, clock, instrument_df, spot_price, expiry_date,
                   trade_legs, simulation_data, exported>>

\* export_to_excel(trade_log): filename = config.EXCEL_FILE_NAME is read before
\* the try block and config.py defines no EXCEL_FILE_NAME, so the call raises
\* AttributeError and no row is written
LiveExportToExcel ==
    /\ Live("export")
    /\ pc' = "raised"
    /\ UNCHANGED <<prog, config, dhan, clock, instrument_df, spot_price, expiry_date,
                   trade_legs, simulation_data, quotes, fetches, live, exported>>

-----------------------------------------------------------------------------

Next ==
    \/ WaitEntry
    \/ EntryReached
    \/ GetInstrumentFile
    \/ GetSpotPrice
    \/ FindWeeklyExpiry
    \/ CalculateStrikes
    \/ EnterLeg
    \/ StoreSimulationData
    \/ MonitorPoll
    \/ MonitorEnd
    \/ SquareOffLeg
    \/ CalculatePnl
    \/ ExportSimulationResults
    \/ LiveGetInstrumentFile
    \/ LiveCalculateStrikes
    \/ LiveFindSecurityIds
    \/ LiveFetchPrices
    \/ LiveExportToExcel

Spec == Init /\ [][Next]_vars

\* the script runs on: a step is taken whenever one is possible, and every
\* sleep returns with the clock advanced
FairSpec == InitFair /\ [][Next]_vars /\ WF_vars(Next)

SpecStrikes == InitStrikes /\ [][Next]_vars

SpecExpiry == InitExpiry /\ [][Next]_vars

SpecFine == InitFine /\ [][Next]_vars

-----------------------------------------------------------------------------
(* Properties *)

Abs(x) == IF x < 0 THEN 0 - x ELSE x

\* the status of a leg in the terms of the lifecycle: a leg without a status
\* key has been created and not entered
Status(n) ==
    IF n \in DOMAIN trade_legs /\ "status" \in DOMAIN trade_legs[n]
    THEN trade_legs[n].status
    ELSE "PENDING"

Simulation == prog = "simulation"

\* the run is at the top of a monitoring iteration that it will execute
IsPoll == Sim("monitor") /\ LoopCondition

\* C1: when the security identifier of one of the four legs is not resolved,
\* the run aborts before entry: no leg is set to OPEN, no price is fetched for
\* any leg and no row is exported, in run_simulation and in run_live_paper_trade
C1_UnresolvedIdAbortsRun ==
    /\ (Simulation /\ \E n \in DOMAIN trade_legs :
            "sec_id" \in DOMAIN trade_legs[n] /\ trade_legs[n].sec_id = "None")
       => /\ \A n \in LegSet : Status(n) = "PENDING"
          /\ \A n \in LegSet : fetches[n] = 0
          /\ exported = <<>>
    /\ (prog = "main" /\ DOMAIN live.ids # {} /\ ~AllIdsFound(live.ids))
       => /\ pc = "aborted"
          /\ \A n \in LegSet : fetches[n] = 0
          /\ exported = <<>>

\* C2: at a monitoring poll an OPEN leg becomes CLOSED_SL if and only if it is
\* a SELL leg and the price fetched for it in that poll is at or above its
\* stop-loss price; no leg becomes CLOSED_SL outside a poll, and a BUY leg is
\* never CLOSED_SL
C2_StopLossTransition ==
    /\ [](\A n \in DOMAIN trade_legs :
            trade_legs[n].action = "BUY" => Status(n) # "CLOSED_SL")
    /\ [][\A n \in LegSet :
            /\ (IsPoll /\ Status(n) = "OPEN")
               => (Status(n)' = "CLOSED_SL"
                   <=> /\ trade_legs[n].action = "SELL"
                       /\ n \in DOMAIN quotes'
                       /\ quotes'[n].ltp >= trade_legs[n].sl)
            /\ (Status(n) # "CLOSED_SL" /\ Status(n)' = "CLOSED_SL")
               => (IsPoll /\ Status(n) = "OPEN")]_vars

\* both short legs entered at 100.0 with stop-loss 125.0; the poll quoted 125.0
\* for the call, which closed it, and 124.9 for the put, which stays OPEN
C2_Witness ==
    /\ Sim("monitor")
    /\ Status("Short_CE") = "CLOSED_SL"
    /\ trade_legs["Short_CE"].sl = 1250000
    /\ trade_legs["Short_CE"].exit_price = 1250000
    /\ Status("Short_PE") = "OPEN"
    /\ trade_legs["Short_PE"].sl = 1250000
    /\ DOMAIN quotes = ShortLegs
    /\ quotes["Short_PE"].ltp = 1249000

\* C3: a leg OPEN at the square-off can only become CLOSED_EOD, also when its
\* exit quote is at or above its stop-loss, and once the run reaches the P/L
\* computation and the export every leg is CLOSED_SL or CLOSED_EOD
C3_AllClosedAtCompletion ==
    /\ []((Simulation /\ pc \in {"export", "done"})
          => \A n \in LegSet : Status(n) \in {"CLOSED_SL", "CLOSED_EOD"})
    /\ [][\A n \in LegSet :
            (Sim("square_off") /\ Status(n) = "OPEN")
            => Status(n)' \in {"OPEN", "CLOSED_EOD"}]_vars

\* a completed run whose short call was closed at the end of the day at a
\* price above its stop-loss
C3_Witness ==
    /\ Sim("done")
    /\ Status("Short_CE") = "CLOSED_EOD"
    /\ trade_legs["Short_CE"].sl = 1250000
    /\ trade_legs["Short_CE"].exit_price >= 1250000
    /\ Status("Hedge_PE") = "CLOSED_EOD"

\* C4: with the development mode off a leg is CLOSED_EOD only at or after the
\* exit time, so a hedge leg never leaves OPEN while the clock is before it
C4_ClosedEODOnlyAtExitTime ==
    (Simulation /\ ~config.DEV_MODE)
    => \A n \in LegSet :
         Status(n) = "CLOSED_EOD"
         => (clock >= ExitTime /\ trade_legs[n].exit_time >= ExitTime)

\* base is spot rounded to the nearest hundred, a tie going to the even hundred
IsNearestHundred(spot, base) ==
    /\ base % 100 = 0
    /\ 2 * Abs(spot - base * 10000) <= 1000000
    /\ 2 * Abs(spot - base * 10000) = 1000000 => (base \div 100) % 2 = 0

\* C5: the strikes of the four legs are shortCall = round(P/100)*100 + d,
\* shortPut = round(P/100)*100 - d, hedgeCall = shortCall + h and
\* hedgePut = shortPut - h, and hedgeCall > shortCall > shortPut > hedgePut
\* whenever d > 0 and h > 0
C5_Strikes ==
    (Simulation /\ DOMAIN trade_legs # {})
    => LET d == config.SHORT_OTM_DISTANCE
           h == config.HEDGE_DISTANCE
           short_ce == trade_legs["Short_CE"].strike
           short_pe == trade_legs["Short_PE"].strike
           hedge_ce == trade_legs["Hedge_CE"].strike
           hedge_pe == trade_legs["Hedge_PE"].strike
       IN  /\ IsNearestHundred(spot_price, short_ce - d)
           /\ short_pe = (short_ce - d) - d
           /\ hedge_ce = short_ce + h
           /\ hedge_pe = short_pe - h
           /\ (d > 0 /\ h > 0)
              => (hedge_ce > short_ce /\ short_ce > short_pe /\ short_pe > hedge_pe)

\* spot 48000.0 with distances 300 and 500: strikes 48300, 47700, 48800, 47200
C5_Witness ==
    /\ Simulation
    /\ DOMAIN trade_legs # {}
    /\ spot_price = 480000000
    /\ config.SHORT_OTM_DISTANCE = 300
    /\ config.HEDGE_DISTANCE = 500
    /\ trade_legs["Short_CE"].strike = 48300
    /\ trade_legs["Short_PE"].strike = 47700
    /\ trade_legs["Hedge_CE"].strike = 48800
    /\ trade_legs["Hedge_PE"].strike = 47200

\* the pnl formula of a leg: (entry - exit) * lot size for a SELL leg,
\* (exit - entry) * lot size for a BUY leg
FormulaPnl(n) ==
    IF trade_legs[n].action = "SELL"
    THEN (trade_legs[n].entry_price - trade_legs[n].exit_price) * LOT_SIZE
    ELSE (trade_legs[n].exit_price - trade_legs[n].entry_price) * LOT_SIZE

FormulaTotal ==
    FormulaPnl("Short_CE") + FormulaPnl("Hedge_CE")
    + FormulaPnl("Short_PE") + FormulaPnl("Hedge_PE")

RecordedTotal ==
    trade_legs["Short_CE"].pnl + trade_legs["Hedge_CE"].pnl
    + trade_legs["Short_PE"].pnl + trade_legs["Hedge_PE"].pnl

Completed == Sim("export") \/ Sim("done")

\* C6 as stated: in a completed run the recorded pnl of every leg equals its
\* formula and the recorded Total_PL equals the sum of the recorded pnl values
C6_PnlIsExactFormula ==
    Completed
    => /\ \A n \in LegSet : trade_legs[n].pnl = FormulaPnl(n)
       /\ simulation_data.Total_PL = RecordedTotal

\* r is x rounded to two decimals
IsRoundedToCents(x, r) == r % 100 = 0 /\ 2 * Abs(r - x) <= 100

\* C6: in a completed run the recorded pnl of every leg is its formula
\* rounded to two decimals and the recorded Total_PL is the sum of the four
\* unrounded formula values rounded to two decimals; when every formula value
\* has at most two decimals these are the formula values and their sum
C6_PnlIsRoundedFormula ==
    Completed
    => /\ \A n \in LegSet : IsRoundedToCents(FormulaPnl(n), trade_legs[n].pnl)
       /\ IsRoundedToCents(FormulaTotal, simulation_data.Total_PL)
       /\ (\A n \in LegSet : FormulaPnl(n) % 100 = 0)
          => /\ \A n \in LegSet : trade_legs[n].pnl = FormulaPnl(n)
             /\ simulation_data.Total_PL = RecordedTotal

\* a completed run: the short call sold at 125.0 and bought back at 100.0 for
\* 375.0, the hedge call bought at 70.0004 and worthless at the exit, recorded
\* as -1050.01
C6_Witness ==
    /\ Sim("done")
    /\ trade_legs["Short_CE"].entry_price = 1250000
    /\ trade_legs["Short_CE"].exit_price = 1000000
    /\ trade_legs["Short_CE"].pnl = 3750000
    /\ trade_legs["Hedge_CE"].entry_price = 700004
    /\ trade_legs["Hedge_CE"].exit_price = 0
    /\ trade_legs["Hedge_CE"].pnl = 0 - 10500100

HasSimulationData == DOMAIN simulation_data # {}

\* C7: the net credit exists once the four entry prices are fetched, equals
\* (Short_CE entry + Short_PE entry) - (Hedge_CE entry + Hedge_PE entry), is
\* changed by no later step, and is the Net Credit of the exported row
C7_NetCreditFixedAtEntry ==
    /\ [](Simulation
          => (HasSimulationData
              <=> pc \in {"monitor", "square_off", "export", "done"}))
    /\ [](HasSimulationData
          => simulation_data.Net_Credit
             = (trade_legs["Short_CE"].entry_price
                + trade_legs["Short_PE"].entry_price)
               - (trade_legs["Hedge_CE"].entry_price
                  + trade_legs["Hedge_PE"].entry_price))
    /\ [][HasSimulationData
          => simulation_data'.Net_Credit = simulation_data.Net_Credit]_vars
    /\ [](\A i \in 1..Len(exported) :
            exported[i].Net_Credit = simulation_data.Net_Credit)

\* a completed and exported run with entries 100.0, 100.0 against 70.0004,
\* 70.0004, a stop-loss exit of the short call, and net credit 59.9992
C7_Witness ==
    /\ Sim("done")
    /\ Len(exported) = 1
    /\ exported[1].Net_Credit = 599992
    /\ Status("Short_CE") = "CLOSED_SL"
    /\ Status("Short_PE") = "CLOSED_EOD"

\* C8: the stop-loss price of an entered SELL leg is its entry price times
\* (1 + SL_PERCENTAGE/100) rounded to one decimal (100.0 gives 125.0), and no
\* step after the entry of a leg changes its entry price or its stop-loss
\* price, or gives a stop-loss price to a leg without one
C8_StopLossFixed ==
    /\ [](\A n \in DOMAIN trade_legs :
            (Status(n) # "PENDING" /\ trade_legs[n].action = "SELL")
            => /\ "sl" \in DOMAIN trade_legs[n]
               /\ trade_legs[n].sl % 1000 = 0
               /\ 2 * Abs(100 * trade_legs[n].sl
                          - trade_legs[n].entry_price * (100 + SL_PERCENTAGE))
                  <= 100 * 1000
               /\ trade_legs[n].entry_price = 1000000 => trade_legs[n].sl = 1250000)
    /\ [][\A n \in DOMAIN trade_legs :
            Status(n) # "PENDING"
            => /\ trade_legs'[n].entry_price = trade_legs[n].entry_price
               /\ ("sl" \in DOMAIN trade_legs'[n]) <=> ("sl" \in DOMAIN trade_legs[n])
               /\ "sl" \in DOMAIN trade_legs[n]
                  => trade_legs'[n].sl = trade_legs[n].sl]_vars

\* a completed run: the short call entered at 100.0 with stop-loss 125.0 and
\* stopped out at 125.0, the short put entered at 124.9 with stop-loss 156.1
\* (156.125 rounded) and closed at the end of the day
C8_Witness ==
    /\ Sim("done")
    /\ trade_legs["Short_CE"].entry_price = 1000000
    /\ trade_legs["Short_CE"].sl = 1250000
    /\ Status("Short_CE") = "CLOSED_SL"
    /\ trade_legs["Short_PE"].entry_price = 1249000
    /\ trade_legs["Short_PE"].sl = 1561000
    /\ Status("Short_PE") = "CLOSED_EOD"

\* C9 as stated: a failed quote, the spot quote of the index included, never
\* ends the run: only a missing instrument snapshot aborts it
C9_NoQuoteFailureEndsRun == Sim("aborted") => instrument_df.read = "None"

Running == Simulation /\ pc \in {"entry", "monitor", "square_off", "export"}

\* the step fetches a quote for leg n and the request fails
FailedFetch(n) == Simulation /\ fetches'[n] # fetches[n] /\ ~quotes'[n].ok

\* C9: a failed quote of a leg is replaced by 0.0 in the one call made for it:
\* at entry the leg becomes OPEN with entry price 0.0, in a poll it is judged
\* at price 0.0, at the square-off it is closed at exit price 0.0; the run is
\* never ended by it, always has a next step until it has called the export,
\* and completes with four closed legs and at most one row.  A failed spot
\* quote becomes 0.0 and aborts the run with no leg built and no row exported
C9_FailedQuoteSubstituted ==
    /\ [][\A n \in LegSet :
            FailedFetch(n)
            => /\ fetches'[n] = fetches[n] + 1
               /\ pc' \in {"entry", "monitor", "square_off"}
               /\ pc = "entry"
                  => /\ fetches[n] = 0
                     /\ Status(n) = "PENDING" /\ Status(n)' = "OPEN"
                     /\ trade_legs'[n].entry_price = 0
               /\ pc = "monitor"
                  => /\ Status(n) = "OPEN"
                     /\ IF trade_legs[n].sl <= 0
                        THEN Status(n)' = "CLOSED_SL" /\ trade_legs'[n].exit_price = 0
                        ELSE Status(n)' = "OPEN"
               /\ pc = "square_off"
                  => /\ Status(n) = "OPEN" /\ Status(n)' = "CLOSED_EOD"
                     /\ trade_legs'[n].exit_price = 0]_vars
    /\ [][Running => (Running' \/ Sim("done")')]_vars
    /\ [](Running => ENABLED Next)
    /\ [](Sim("done")
          => /\ \A n \in LegSet : Status(n) \in {"CLOSED_SL", "CLOSED_EOD"}
             /\ Len(exported) <= 1)
    /\ []((Simulation /\ pc \notin {"start", "load", "spot"}
           /\ instrument_df.read # "None" /\ spot_price = 0)
          => /\ pc = "aborted"
             /\ DOMAIN trade_legs = {}
             /\ \A n \in LegSet : fetches[n] = 0
             /\ exported = <<>>)
    /\ (Sim("entry") ~> Sim("done"))

\* a completed and exported run in which the entry quote of the short call, a
\* poll quote of the short put and the exit quote of the hedge put failed
C9_Witness ==
    /\ Sim("done")
    /\ Len(exported) = 1
    /\ trade_legs["Short_CE"].sec_id # "None"
    /\ trade_legs["Short_CE"].entry_price = 0
    /\ trade_legs["Short_PE"].entry_price = 1000000
    /\ fetches["Short_PE"] = 3
    /\ Status("Short_PE") = "CLOSED_EOD"
    /\ trade_legs["Short_PE"].exit_price = 0
    /\ trade_legs["Hedge_PE"].entry_price = 700004
    /\ trade_legs["Hedge_PE"].exit_price = 0
    /\ DOMAIN quotes = {"Hedge_PE"} /\ ~quotes["Hedge_PE"].ok

ShortsClosed ==
    Status("Short_CE") # "OPEN" /\ Status("Short_PE") # "OPEN"

\* C10: a poll is made only before the exit time; the loop is left at the
\* poll that leaves both short legs closed, so the run is never at the top of
\* the loop with both closed, and otherwise only when the exit time is reached
\* (or in dev mode); every sleep advances the clock, and a run that entered
\* the loop completes
C10_MonitoringEnds ==
    /\ [](Sim("monitor") => ~ShortsClosed)
    /\ [][(Sim("monitor") /\ fetches' # fetches)
          => (~config.DEV_MODE /\ clock < ExitTime)]_vars
    /\ [][(Sim("monitor") /\ ShortsClosed') => pc' = "square_off"]_vars
    /\ [][(Sim("monitor") /\ pc' = "square_off")
          => (ShortsClosed' \/ config.DEV_MODE \/ clock >= ExitTime)]_vars
    /\ [][(Sim("monitor") /\ pc' = "monitor") => clock' > clock]_vars
    /\ (Sim("monitor") ~> Sim("done"))

\* the loop was left before the exit time by the second poll: the short call
\* was stopped out by the first poll and the short put by the next one
C10_Witness ==
    /\ Sim("square_off")
    /\ clock < ExitTime
    /\ Status("Short_CE") = "CLOSED_SL"
    /\ Status("Short_PE") = "CLOSED_SL"
    /\ trade_legs["Short_CE"].exit_time < trade_legs["Short_PE"].exit_time

\* the catalog lookup of some leg returned None
UnresolvedId ==
    \/ /\ Simulation
       /\ \E n \in DOMAIN trade_legs :
            "sec_id" \in DOMAIN trade_legs[n] /\ trade_legs[n].sec_id = "None"
    \/ /\ prog = "main"
       /\ DOMAIN live.ids # {}
       /\ ~AllIdsFound(live.ids)

\* the snapshot could not be obtained, the spot quote failed, or the snapshot
\* has no expiry on or after today
CatalogUnavailable == instrument_df.read = "None"
SpotUnavailable ==
    Simulation /\ instrument_df.read = "DataFrame" /\ spot_price = 0
    /\ pc \notin {"start", "load", "spot"}
ExpiryNotFound ==
    Simulation /\ instrument_df.read = "DataFrame" /\ spot_price # 0
    /\ pc \notin {"start", "load", "spot", "expiry"}
    /\ FutureExpiries(instrument_df) = {}

\* a row is exported only by a completed run: four closed legs, Total_PL set
ExportedAfterCompletion ==
    exported # <<>>
    => /\ Sim("done")
       /\ \A n \in LegSet : Status(n) \in {"CLOSED_SL", "CLOSED_EOD"}
       /\ IsRoundedToCents(FormulaTotal, simulation_data.Total_PL)
       /\ exported[1].Total_PL = simulation_data.Total_PL

\* C11: a run exports at most one row, and only after all four legs are
\* closed and Total_PL has been computed; a run in which the catalog or the
\* spot is unavailable, no expiry is found or an identifier is unresolved
\* exports no row
C11_ExportOnceAfterCompletion ==
    /\ Len(exported) <= 1
    /\ ExportedAfterCompletion
    /\ (CatalogUnavailable \/ SpotUnavailable \/ ExpiryNotFound \/ UnresolvedId)
       => exported = <<>>

DevRun == Simulation /\ config.DEV_MODE

\* C12: with the development mode on, run_simulation makes neither the entry
\* wait nor a monitoring poll: the step at the start goes on whatever the
\* clock, the step at the monitoring loop goes to the square-off with no quote
\* fetched and no leg changed, and the clock is never waited on; in every
\* completed dev-mode run no leg is CLOSED_SL, all four legs are CLOSED_EOD
\* and two quotes were fetched per leg
C12_DevModeSkipsWaits ==
    /\ [][DevRun
          => /\ clock' = clock
             /\ pc = "start" => pc' = "load"
             /\ pc = "monitor"
                => /\ pc' = "square_off"
                   /\ fetches' = fetches
                   /\ trade_legs' = trade_legs]_vars
    /\ [](DevRun => \A n \in LegSet : Status(n) # "CLOSED_SL")
    /\ []((DevRun /\ pc \in {"export", "done"})
          => \A n \in LegSet : Status(n) = "CLOSED_EOD" /\ fetches[n] = 2)

\* a dev-mode run started before 9:20 and completed at the same time of day:
\* the short call entered at 100.0 and closed at the end of the day at its
\* stop-loss 125.0, two quotes fetched for every leg
C12_Witness ==
    /\ DevRun
    /\ pc = "done"
    /\ clock < EntryTime
    /\ trade_legs["Short_CE"].sl = 1250000
    /\ trade_legs["Short_CE"].exit_price = 1250000
    /\ \A n \in LegSet : Status(n) = "CLOSED_EOD" /\ fetches[n] = 2

LegsBuilt == Simulation /\ DOMAIN trade_legs # {}

\* the four legs exist under their names, the Short legs SELL and the Hedge
\* legs BUY, and no Hedge leg has a stop-loss price
FourLegs ==
    /\ DOMAIN trade_legs = LegSet
    /\ Cardinality(DOMAIN trade_legs) = 4
    /\ \A n \in {"Short_CE", "Short_PE"} : trade_legs[n].action = "SELL"
    /\ \A n \in {"Hedge_CE", "Hedge_PE"} :
         trade_legs[n].action = "BUY" /\ "sl" \notin DOMAIN trade_legs[n]

\* C13 as stated: in every state after leg construction there are exactly the
\* four legs, the Short legs SELL with a stop-loss price, the Hedge legs BUY
\* without one
C13_ShortLegsAlwaysCarryStop ==
    LegsBuilt
    => /\ FourLegs
       /\ \A n \in {"Short_CE", "Short_PE"} : "sl" \in DOMAIN trade_legs[n]

\* C13: in every state after leg construction there are exactly the four
\* legs, the Short legs SELL and the Hedge legs BUY; a Hedge leg never has a
\* stop-loss price, and a Short leg has none while it is not entered and has
\* one from its entry on
C13_FourLegs ==
    LegsBuilt
    => /\ FourLegs
       /\ \A n \in {"Short_CE", "Short_PE"} :
            "sl" \in DOMAIN trade_legs[n] <=> Status(n) # "PENDING"

\* the short call is entered at 100.0 with stop-loss 125.0 and the hedge call
\* is entered, while the short put is not entered yet
C13_Witness ==
    /\ Sim("entry")
    /\ Status("Short_CE") = "OPEN"
    /\ trade_legs["Short_CE"].sl = 1250000
    /\ Status("Hedge_CE") = "OPEN"
    /\ Status("Short_PE") = "PENDING"

\* the snapshot read has no BANKNIFTY index option row expiring today or later
NoFutureOptionRow ==
    /\ instrument_df.read = "DataFrame"
    /\ ~\E r \in instrument_df.rows :
          /\ r.SM_SYMBOL_NAME = "BANKNIFTY"
          /\ r.SEM_EXCH_INSTRUMENT_TYPE = "OPTIDX"
          /\ r.SEM_EXM_EXCH_ID = "NSE_FNO"
          /\ r.SEM_EXPIRY_DATE >= 0

Ended == pc \in {"aborted", "raised"}

\* C14: when get_instrument_file returns None, or find_weekly_expiry is
\* called on a snapshot with no option row of the underlying expiring today
\* or later, run_simulation ends at once: no leg is built, no quote is fetched
\* for any leg, nothing is exported, and no further step is taken
C14_NoCatalogOrExpiryAborts ==
    /\ []((Simulation /\ instrument_df.read = "None") => pc = "aborted")
    /\ []((Simulation /\ NoFutureOptionRow /\ pc \notin {"spot", "expiry"})
          => Ended)
    /\ []((Simulation /\ (instrument_df.read = "None" \/ NoFutureOptionRow))
          => /\ DOMAIN trade_legs = {}
             /\ DOMAIN simulation_data = {}
             /\ \A n \in LegSet : fetches[n] = 0
             /\ exported = <<>>)
    /\ [][~(Simulation /\ Ended)]_vars

\* the snapshot holds one option that expired yesterday: the run ended in
\* find_weekly_expiry after a spot quote of 48000.0, with no leg built
C14_Witness ==
    /\ Sim("raised")
    /\ instrument_df.rows = {BankNiftyOption(0 - 1)}
    /\ spot_price = 480000000
    /\ DOMAIN trade_legs = {}
    /\ exported = <<>>

\* the run returned and its append to the log failed
ExportFailed == Sim("done") /\ exported = <<>>

\* C15: the export step appends one row or, when the append fails, none; in
\* both cases it leaves the legs (status, entry and exit price, pnl) and the
\* simulation data (net credit, Total_PL) as they are and the run returns; it
\* takes no step after that, so nothing is retried; the data returned after a
\* failed append is that of the completed run
C15_ExportFailureReportedOnly ==
    /\ [][Sim("export")
          => /\ pc' = "done"
             /\ trade_legs' = trade_legs
             /\ simulation_data' = simulation_data
             /\ \/ exported' = exported
                \/ exported' = Append(exported, FlatData(simulation_data, trade_legs))]_vars
    /\ [][~Sim("done")]_vars
    /\ [](ExportFailed
          => /\ \A n \in LegSet :
                  /\ Status(n) \in {"CLOSED_SL", "CLOSED_EOD"}
                  /\ IsRoundedToCents(FormulaPnl(n), trade_legs[n].pnl)
             /\ IsRoundedToCents(FormulaTotal, simulation_data.Total_PL)
             /\ simulation_data.Net_Credit
                = (trade_legs["Short_CE"].entry_price
                   + trade_legs["Short_PE"].entry_price)
                  - (trade_legs["Hedge_CE"].entry_price
                     + trade_legs["Hedge_PE"].entry_price))

\* a run returned after a failed append: the short call sold at 100.0 and
\* stopped out at 125.0 for -375.0, net credit 59.9992, no row in the log
C15_Witness ==
    /\ ExportFailed
    /\ Status("Short_CE") = "CLOSED_SL"
    /\ trade_legs["Short_CE"].pnl = 0 - 3750000
    /\ simulation_data.Net_Credit = 599992
    /\ simulation_data.Total_PL # 0

Closed(n) == Status(n) \in {"CLOSED_SL", "CLOSED_EOD"}

\* C16: the status of a leg only moves PENDING -> OPEN -> CLOSED_SL or
\* CLOSED_EOD; a leg is opened by the one entry quote made for it, whatever
\* the answer (0.0 included), and every leg is opened before the monitoring;
\* once a leg is closed no step changes its status, exit price or exit time
C16_StatusMovesForward ==
    /\ [][\A n \in LegSet :
            /\ Status(n) = "PENDING" => Status(n)' \in {"PENDING", "OPEN"}
            /\ Status(n) = "OPEN" => Status(n)' \in {"OPEN", "CLOSED_SL", "CLOSED_EOD"}
            /\ (Status(n) = "PENDING" /\ Status(n)' = "OPEN")
               => (Sim("entry") /\ fetches[n] = 0 /\ fetches'[n] = 1)
            /\ (Sim("entry") /\ fetches'[n] # fetches[n])
               => /\ Status(n) = "PENDING" /\ Status(n)' = "OPEN"
                  /\ trade_legs'[n].entry_price = quotes'[n].ltp
            /\ Closed(n)
               => /\ Status(n)' = Status(n)
                  /\ trade_legs'[n].exit_price = trade_legs[n].exit_price
                  /\ trade_legs'[n].exit_time = trade_legs[n].exit_time]_vars
    /\ []((Simulation /\ pc \in {"monitor", "square_off", "export", "done"})
          => \A n \in LegSet : Status(n) # "PENDING")

\* a completed run: the entry quote of the short call failed, the leg was
\* opened at 0.0 and stopped out by the first poll at 9:20; the square-off at
\* the exit time closed the short put and left the short call as it was
C16_Witness ==
    /\ Sim("done")
    /\ trade_legs["Short_CE"].sec_id # "None"
    /\ trade_legs["Short_CE"].entry_price = 0
    /\ Status("Short_CE") = "CLOSED_SL"
    /\ trade_legs["Short_CE"].exit_time = EntryTime
    /\ Status("Short_PE") = "CLOSED_EOD"
    /\ trade_legs["Short_PE"].exit_time >= ExitTime

\* C17: the four strikes chosen by run_live_paper_trade are multiples of 100
\* plus the configured offsets and are the four strikes run_simulation
\* chooses for the same spot price and distances
C17_OneStrikeAlgorithm ==
    (prog = "main" /\ DOMAIN live.strikes # {})
    => LET d == config.SHORT_OTM_DISTANCE
           h == config.HEDGE_DISTANCE
       IN  /\ (live.strikes["Short_CE"] - d) % 100 = 0
           /\ (live.strikes["Short_PE"] + d) % 100 = 0
           /\ live.strikes["Hedge_CE"] = live.strikes["Short_CE"] + h
           /\ live.strikes["Hedge_PE"] = live.strikes["Short_PE"] - h
           /\ live.strikes = SimStrikes(spot_price, d, h)

SomeLegNotClosed == LegsBuilt /\ \E n \in LegSet : ~Closed(n)

\* C18: while some leg is still PENDING or OPEN no P/L has been computed:
\* every leg that has been entered has pnl 0.0, a leg not entered has no pnl
\* yet, and the Total_PL of the simulation data, once it exists, is 0.0
C18_NoPnlBeforeAllClosed ==
    SomeLegNotClosed
    => /\ \A n \in LegSet :
            IF Status(n) = "PENDING"
            THEN "pnl" \notin DOMAIN trade_legs[n]
            ELSE trade_legs[n].pnl = 0
       /\ HasSimulationData => simulation_data.Total_PL = 0

\* in the monitoring loop: the short call, sold at 100.0, was stopped out at
\* 125.0 and the short put is still open; no pnl and no Total_PL is set yet
C18_Witness ==
    /\ Sim("monitor")
    /\ Status("Short_CE") = "CLOSED_SL"
    /\ trade_legs["Short_CE"].entry_price = 1000000
    /\ trade_legs["Short_CE"].exit_price = 1250000
    /\ trade_legs["Short_CE"].pnl = 0
    /\ Status("Short_PE") = "OPEN"
    /\ simulation_data.Total_PL = 0

\* an index option row of the underlying on the derivatives segment
IndexOptionRow(r) ==
    /\ r.SM_SYMBOL_NAME = "BANKNIFTY"
    /\ r.SEM_EXCH_INSTRUMENT_TYPE = "OPTIDX"
    /\ r.SEM_EXM_EXCH_ID = "NSE_FNO"

ExpiryFound ==
    Simulation /\ pc \in {"strikes", "entry", "monitor", "square_off", "export", "done"}

\* C19: the expiry find_weekly_expiry returns is on or after today, is the
\* expiry of an index option row of the underlying in the snapshot, and no
\* such row has an expiry on or after today that is earlier
C19_NearestExpiry ==
    ExpiryFound
    => /\ expiry_date >= 0
       /\ \E r \in instrument_df.rows :
            IndexOptionRow(r) /\ r.SEM_EXPIRY_DATE = expiry_date
       /\ \A r \in instrument_df.rows :
            IndexOptionRow(r)
            => (r.SEM_EXPIRY_DATE < 0 \/ r.SEM_EXPIRY_DATE >= expiry_date)

\* the snapshot holds BANKNIFTY options expired yesterday and expiring in 3
\* and 10 days, a NIFTY option and a BSE row expiring tomorrow and a BANKNIFTY
\* future expiring in 2 days: the expiry found is the one in 3 days
C19_Witness ==
    /\ ExpiryFound
    /\ instrument_df.rows = WideRows \ {BankNiftyOption(0)}
    /\ expiry_date = 3

\* C20: a monitoring poll fetches one quote for each SELL leg that is OPEN
\* and none for any other leg, so a hedge leg and a closed leg are not quoted;
\* a leg whose status the poll does not change is left as it is, and only a
\* quoted leg changes
C20_PollQuotesOpenShortsOnly ==
    [][IsPoll
       => \A n \in LegSet :
            LET quoted == trade_legs[n].action = "SELL" /\ Status(n) = "OPEN"
            IN  /\ fetches'[n] = IF quoted THEN fetches[n] + 1 ELSE fetches[n]
                /\ n \in DOMAIN quotes' <=> quoted
                /\ Status(n)' = Status(n) => trade_legs'[n] = trade_legs[n]
                /\ trade_legs'[n] # trade_legs[n]
                   => (quoted /\ Status(n)' = "CLOSED_SL")]_vars

\* after the second poll: the short call was stopped out by the first poll
\* and was not quoted again, the short put was quoted by both and is OPEN,
\* the hedges were quoted at entry only
C20_Witness ==
    /\ Sim("monitor")
    /\ Status("Short_CE") = "CLOSED_SL"
    /\ fetches["Short_CE"] = 2
    /\ Status("Short_PE") = "OPEN"
    /\ fetches["Short_PE"] = 3
    /\ fetches["Hedge_CE"] = 1
    /\ fetches["Hedge_PE"] = 1
    /\ DOMAIN quotes = {"Short_PE"}

\* the pnl bound of a stopped leg: (entry price - stop-loss price) * lot size
StopLossBound(n) == (trade_legs[n].entry_price - trade_legs[n].sl) * LOT_SIZE

\* C21 as stated: a CLOSED_SL leg has an exit price at or above its stop-loss
\* price, and its pnl, once computed, is at most
\* (entry price - stop-loss price) * lot size
C21_StoppedPnlWithinBound ==
    \A n \in LegSet :
        Status(n) = "CLOSED_SL"
        => /\ trade_legs[n].exit_price >= trade_legs[n].sl
           /\ Completed => trade_legs[n].pnl <= StopLossBound(n)

\* C21: a CLOSED_SL leg has an exit price at or above its stop-loss price,
\* and its pnl, once computed, is the formula value rounded to two decimals:
\* it exceeds (entry price - stop-loss price) * lot size by at most half a
\* cent, and not at all when that bound has at most two decimals
C21_StoppedPnlWithinRoundedBound ==
    \A n \in LegSet :
        Status(n) = "CLOSED_SL"
        => /\ trade_legs[n].exit_price >= trade_legs[n].sl
           /\ FormulaPnl(n) <= StopLossBound(n)
           /\ Completed
              => /\ 2 * (trade_legs[n].pnl - StopLossBound(n)) <= 100
                 /\ StopLossBound(n) % 100 = 0
                    => trade_legs[n].pnl <= StopLossBound(n)

\* a completed run: the short call sold at 100.0004 with stop-loss 125.0 was
\* stopped out at 125.0; its bound is -374.994 and its recorded pnl -374.99
C21_Witness ==
    /\ Sim("done")
    /\ Status("Short_CE") = "CLOSED_SL"
    /\ trade_legs["Short_CE"].entry_price = 1000004
    /\ trade_legs["Short_CE"].sl = 1250000
    /\ trade_legs["Short_CE"].exit_price = 1250000
    /\ trade_legs["Short_CE"].pnl = 0 - 3749900

\* leg n is a SELL leg that was entered at the 0.0 of a failed quote
EnteredAtSentinel(n) ==
    /\ LegsBuilt
    /\ Status(n) # "PENDING"
    /\ trade_legs[n].action = "SELL"
    /\ trade_legs[n].entry_price = 0

\* C22: a SELL leg entered at 0.0 has stop-loss price 0.0; with the
\* development mode off, the first poll closes it as CLOSED_SL at whatever
\* price it fetches, the 0.0 of a failed quote included, so it is never OPEN
\* after a poll; it is CLOSED_EOD only in a run that made no poll, where it
\* was quoted at entry and at the square-off only
C22_SentinelEntryStoppedAtFirstPoll ==
    /\ [](\A n \in LegSet : EnteredAtSentinel(n) => trade_legs[n].sl = 0)
    /\ [][\A n \in LegSet :
            (IsPoll /\ EnteredAtSentinel(n) /\ Status(n) = "OPEN")
            => /\ ~config.DEV_MODE
               /\ fetches[n] = 1
               /\ Status(n)' = "CLOSED_SL"
               /\ trade_legs'[n].exit_price = quotes'[n].ltp]_vars
    /\ [](\A n \in LegSet :
            (EnteredAtSentinel(n) /\ Status(n) = "OPEN") => fetches[n] = 1)
    /\ [](\A n \in LegSet :
            (EnteredAtSentinel(n) /\ Status(n) = "CLOSED_EOD")
            => /\ fetches[n] = 2
               /\ \A m \in LegSet : Status(m) \in {"OPEN", "CLOSED_EOD"}
               /\ config.DEV_MODE \/ clock >= ExitTime)

\* right after the first poll of a run with the development mode off: the
\* short call, entered at 0.0, was closed at the quote of 100.0 and the short
\* put, whose identifier was not found, at the 0.0 of its failed quote
C22_Witness ==
    /\ Sim("square_off")
    /\ ~config.DEV_MODE
    /\ EnteredAtSentinel("Short_CE")
    /\ Status("Short_CE") = "CLOSED_SL"
    /\ trade_legs["Short_CE"].exit_price = 1000000
    /\ EnteredAtSentinel("Short_PE")
    /\ trade_legs["Short_PE"].sec_id = "None"
    /\ Status("Short_PE") = "CLOSED_SL"
    /\ trade_legs["Short_PE"].exit_price = 0
    /\ DOMAIN quotes = ShortLegs
    /\ ~quotes["Short_PE"].ok

====
